---- MODULE Spec2Model ----
(***************************************************************************)
(* Auth0ManagementClient: the token cache, the rate governor and the       *)
(* request pipeline of src/src/types.ts (the client class, lines 400-928). *)
(*                                                                         *)
(* Each process is one caller of the client.  Every `await` of the source  *)
(* that waits for a timer or for the network is a program location (pc);   *)
(* the synchronous code between two such awaits is one atomic action, as   *)
(* the cooperative scheduler of the host runs it.  Time is in milliseconds *)
(* (Date.now()), and a timer fires at or after its deadline.               *)
(***************************************************************************)
EXTENDS Integers, Sequences, FiniteSets, TLC

\* ------------------------------------------------------------------ bounds
NumProcs == 2
MaxCalls == 3
MaxClock == 1100
MaxQuota == 2

Procs == 1..NumProcs

\* ------------------------------------------------------- program constants
DEFAULT_RETRY_DELAY == 1000
MAX_RETRIES == 3
DEFAULT_RATE_LIMIT == 8
TokenBuffer == 300000
WindowMs == 1000
WaitBuffer == 10
MsPerSecond == 1000

\* this.accessToken = null
NoToken == 0
\* config.rateLimitPerSecond left undefined
Undefined == -1
\* the JavaScript value undefined, and a JSON array with its items
NoValue == [defined |-> FALSE, items |-> <<>>]
JsonArray(items) == [defined |-> TRUE, items |-> items]
\* a JSON object, held as the one item
JsonObject(entry) == [defined |-> TRUE, items |-> <<entry>>]
\* error.message: the text before the status, the status, the text after it
NoMessage == [prefix |-> "", status |-> 0, text |-> ""]
\* how an operation ended: kind says which of the fields are meaningful
NoResult == [kind |-> "none", status |-> 0, body |-> "", token |-> NoToken,
             value |-> NoValue, success |-> FALSE, error |-> NoMessage]

\* ------------------------------------------------------------- environment
\* successful answers of the token endpoint: {access_token, expires_in}
TokenGrants == {[access_token |-> 1, expires_in |-> 300],
                [access_token |-> 2, expires_in |-> 301]}
\* a grant that stays valid for two seconds, long enough to outlast a retry wait
LongGrant == [access_token |-> 3, expires_in |-> 302]
\* grants that are stale when cached: expires_in below the 300 s buffer
ShortGrants == {[access_token |-> 4, expires_in |-> 0],
                [access_token |-> 5, expires_in |-> 299]}
\* non-success answers of the token endpoint
TokenFailures == {[status |-> 401, body |-> "Unauthorized"]}
\* statuses of the resource endpoints
Statuses == {200, 201, 204, 404, 429}
\* retry-after header values: absent (headers.get returns null) or a string,
\* written as its sequence of characters
NoHeader == [present |-> FALSE, text |-> <<>>]
Header(s) == [present |-> TRUE, text |-> s]
RetryAfterHeaders ==
  {NoHeader, Header(<<>>), Header(<<"1">>), Header(<<"2">>), Header(<<"0">>),
   Header(<<"-", "1">>), Header(<<"x">>)}

\* ----------------------------------------------------------------- helpers
Range(s) == {s[i] : i \in 1..Len(s)}

Max(a, b) == IF a >= b THEN a ELSE b

IsDigit(c) == c \in {"0", "1", "2", "3", "4", "5", "6", "7", "8", "9"}

DigitVal(c) ==
  CASE c = "0" -> 0 [] c = "1" -> 1 [] c = "2" -> 2 [] c = "3" -> 3
    [] c = "4" -> 4 [] c = "5" -> 5 [] c = "6" -> 6 [] c = "7" -> 7
    [] c = "8" -> 8 [] c = "9" -> 9

\* a JavaScript number that may be NaN
NaN == [nan |-> TRUE, val |-> 0]
Num(n) == [nan |-> FALSE, val |-> n]

RECURSIVE SkipSpaces(_)
SkipSpaces(s) ==
  IF s # <<>> /\ Head(s) = " " THEN SkipSpaces(Tail(s)) ELSE s

RECURSIVE Digits(_, _, _)
\* reads the leading digits of s; acc is the value so far, seen says whether
\* a digit was read
Digits(s, acc, seen) ==
  IF s # <<>> /\ IsDigit(Head(s))
    THEN Digits(Tail(s), acc * 10 + DigitVal(Head(s)), TRUE)
    ELSE IF seen THEN Num(acc) ELSE NaN

\* parseInt(s, 10)
ParseInt(s) ==
  LET t == SkipSpaces(s) IN
    IF t # <<>> /\ Head(t) = "-"
      THEN LET d == Digits(Tail(t), 0, FALSE) IN
             IF d.nan THEN NaN ELSE Num(0 - d.val)
      ELSE IF t # <<>> /\ Head(t) = "+"
        THEN Digits(Tail(t), 0, FALSE)
        ELSE Digits(t, 0, FALSE)

\* faulty variant: a missing header counts as two seconds
HeaderOrDefaultTwo(h) ==
  IF h.present /\ h.text # <<>> THEN h.text ELSE <<"2">>

\* response.headers.get('retry-after') || '1'
HeaderOrDefault(h) ==
  IF h.present /\ h.text # <<>> THEN h.text ELSE <<"1">>

\* faulty variant: the header is ignored
RetryDelayFixed(h) == DEFAULT_RETRY_DELAY

\* retryAfter * 1000 || DEFAULT_RETRY_DELAY
RetryDelay(h) ==
  LET retryAfter == ParseInt(HeaderOrDefault(h)) IN
    IF retryAfter.nan \/ retryAfter.val * MsPerSecond = 0
      THEN DEFAULT_RETRY_DELAY
      ELSE retryAfter.val * MsPerSecond

\* faulty variant: the delay is taken for the instant to wake at
TimerDeadlineAbsolute(now, ms) == Max(ms, 0)

\* setTimeout(resolve, ms): the earliest instant the timer can fire
TimerDeadline(now, ms) == now + Max(ms, 0)

\* response.ok
IsOk(status) == status >= 200 /\ status <= 299

\* faulty variant: a timestamp exactly one window old is kept
PurgeInclusive(ts, windowStart) == SelectSeq(ts, LAMBDA t : t >= windowStart)

\* this.requestTimestamps.filter(t => t > windowStart)
Purge(ts, windowStart) == SelectSeq(ts, LAMBDA t : t > windowStart)

\* faulty variant: `||` for `??`, so that a configured 0 becomes the default
RateLimitOfFalsy(cfg) == IF cfg = Undefined \/ cfg = 0 THEN DEFAULT_RATE_LIMIT ELSE cfg

\* config.rateLimitPerSecond ?? DEFAULT_RATE_LIMIT
RateLimitOf(cfg) == IF cfg = Undefined THEN DEFAULT_RATE_LIMIT ELSE cfg

\* faulty variant: the token still counts as valid at the instant it goes stale
CacheValidInclusive(tok, expiry, now) == tok # NoToken /\ now <= expiry - TokenBuffer

\* faulty variant: the comparison is inverted: only a stale token is reused
CacheValidInverted(tok, expiry, now) == tok # NoToken /\ now > expiry - TokenBuffer

\* accessToken && Date.now() < tokenExpiry - 300000
CacheValid(tok, expiry, now) == tok # NoToken /\ now < expiry - TokenBuffer

\* faulty variant: the limit test off by one
WindowFullOffByOne(ts, quota) == Len(ts) > quota

\* this.requestTimestamps.length >= this.rateLimitPerSecond
WindowFull(ts, quota) == Len(ts) >= quota

\* an entry of a list answer: { client_id, name }
Entry(id, name) == [client_id |-> id, name |-> name]

\* the JSON texts the resource endpoints answer a list call with, and the
\* arrays they denote: an empty list, the queried names alone, second, twice,
\* and names that differ from them in case or by a suffix
JsonLists ==
  {[text |-> "[]", items |-> <<>>],
   [text |-> "[{\"client_id\":\"app1\",\"name\":\"a\"}]",
    items |-> <<Entry("app1", "a")>>],
   [text |-> "[{\"client_id\":\"app1\",\"name\":\"b\"},{\"client_id\":\"app2\",\"name\":\"a\"}]",
    items |-> <<Entry("app1", "b"), Entry("app2", "a")>>],
   [text |-> "[{\"client_id\":\"app1\",\"name\":\"a\"},{\"client_id\":\"app2\",\"name\":\"a\"}]",
    items |-> <<Entry("app1", "a"), Entry("app2", "a")>>],
   [text |-> "[{\"client_id\":\"app1\",\"name\":\"A\"},{\"client_id\":\"app2\",\"name\":\"ab\"}]",
    items |-> <<Entry("app1", "A"), Entry("app2", "ab")>>]}

ListBodies == {l.text : l \in JsonLists}

\* the names the application looks for
Names == {"a", "b"}

\* body texts of a success response: none with 204 No Content, else one of
\* the JSON texts the run's servers answer with
OkBodies(status, bodies) == IF status = 204 THEN {""} ELSE bodies

\* JSON.parse(text) as response.json() applies it: a value, or a SyntaxError
ParseJson(text) ==
  IF \E l \in JsonLists : l.text = text
    THEN [ok |-> TRUE, value |-> JsonArray((CHOOSE l \in JsonLists : l.text = text).items)]
    ELSE [ok |-> FALSE, value |-> NoValue]

\* items.find(e => e.name === name): the entries are tried in order, and the
\* first whose name is the query is the result; undefined when none is
RECURSIVE Find(_, _)
Find(items, name) ==
  IF items = <<>> THEN NoValue
  ELSE IF Head(items).name = name THEN JsonObject(Head(items))
  ELSE Find(Tail(items), name)

\* faulty variant: no status is taken for an empty answer
IsNoContentNever(status) == FALSE

\* response.status === 204
IsNoContent(status) == status = 204

\* faulty variant: retries once more when the budget is spent
ShouldRetryAtZero(status, retriesLeft) == status = 429 /\ retriesLeft >= 0

\* faulty variant: every non-success status is retried while budget is left
ShouldRetryAnyError(status, retriesLeft) == ~IsOk(status) /\ retriesLeft > 0

\* response.status === 429 && retries > 0
ShouldRetry(status, retriesLeft) == status = 429 /\ retriesLeft > 0

\* faulty variant: the error message leaves out the response body
AuthErrorWithoutBody(response) ==
  [kind |-> "auth_error", status |-> response.status, body |-> "",
   token |-> NoToken, value |-> NoValue, success |-> FALSE, error |-> NoMessage]

\* new Error(`Failed to get access token: ${response.status} ${error}`)
AuthError(response) ==
  [kind |-> "auth_error", status |-> response.status, body |-> response.body,
   token |-> NoToken, value |-> NoValue, success |-> FALSE, error |-> NoMessage]

\* new Error(`Auth0 API error: ${response.status} ${error}`)
ApiError(response) ==
  [kind |-> "api_error", status |-> response.status, body |-> response.body,
   token |-> NoToken, value |-> NoValue, success |-> FALSE, error |-> NoMessage]

\* error.message of a failure: the template of the client's own errors, the
\* runtime's text of any other
Message(err) ==
  CASE err.kind = "auth_error"
         -> [prefix |-> "Failed to get access token:", status |-> err.status,
             text |-> err.body]
    [] err.kind = "api_error"
         -> [prefix |-> "Auth0 API error:", status |-> err.status, text |-> err.body]
    [] OTHER -> [prefix |-> "", status |-> 0, text |-> err.body]

\* fetch() rejects: no answer was received
NetworkError == [NoResult EXCEPT !.kind = "network_error", !.body = "fetch failed"]

\* faulty variant: a failure is passed on to the caller of testConnection()
ConnectionReportRethrows(o, res) ==
  IF o = "request" /\ res.kind \in {"value", "empty"}
    THEN [NoResult EXCEPT !.kind = "report", !.success = TRUE]
    ELSE res

\* what testConnection() resolves with when operation o ended as res:
\* { success: true }, or { success: false, error: error.message }
ConnectionReport(o, res) ==
  IF o = "request" /\ res.kind \in {"value", "empty"}
    THEN [NoResult EXCEPT !.kind = "report", !.success = TRUE]
    ELSE [NoResult EXCEPT !.kind = "report", !.error = Message(res)]

\* faulty variant: the 10 ms are taken off the wait
WaitTimeBufferOff(oldestTimestamp, windowStart) ==
  oldestTimestamp - windowStart - WaitBuffer

\* faulty variant: the wait ends when the oldest timestamp leaves the window,
\* without the 10 ms on top
WaitTimeNoBuffer(oldestTimestamp, windowStart) == oldestTimestamp - windowStart

\* oldestTimestamp - windowStart + 10
WaitTime(oldestTimestamp, windowStart) ==
  oldestTimestamp - windowStart + WaitBuffer

\* ------------------------------------------------------------------- state
VARIABLES
  env,                \* the run: what the application calls, what the servers answer
  clock,              \* Date.now()
  rateLimitPerSecond, \* this.rateLimitPerSecond
  accessToken,        \* this.accessToken (NoToken for null)
  tokenExpiry,        \* this.tokenExpiry
  requestTimestamps,  \* this.requestTimestamps
  pc,                 \* where each caller is suspended
  op,                 \* the operation each caller is running
  outer,              \* the public method that runs it, when that is testConnection()
  retries,            \* the `retries` argument of the running request()
  wakeAt,             \* deadline of the timer the caller sleeps on
  delay,              \* the ms argument of the last sleep() of the caller
  token,              \* the token getAccessToken() returned to the caller
  resp,               \* the HTTP response the caller is reading
  result,             \* how the caller's operation ended
  calls,              \* history: operations started
  throttled,          \* history: 429 answers of the resource endpoints
  fetches,            \* history: POST /oauth/token requests of the running call
  sends,              \* history: resource requests sent by the running call
  steps,              \* history: stages of the caller's current attempt
  recorded,           \* history: timestamps the running call pushed to the window
  lastRetryDelay,     \* history: the ms argument of the latest retry sleep of the
                      \*          running call (0: none yet)
  waiting,            \* history: callers suspended in waitForRateLimit(), in
                      \*          the order they invoked it
  admissions,         \* history: the admission timestamps of the 1000 ms
                      \*          that end at the latest admission
  lastIssued          \* history: <<token, expiry>> of the latest acquisition

clientVars == <<rateLimitPerSecond, accessToken, tokenExpiry, requestTimestamps>>
callVars == <<pc, op, outer, retries, wakeAt, delay, token, resp, result>>
histVars == <<calls, throttled, fetches, sends, steps, recorded, lastRetryDelay, waiting,
              admissions,
              lastIssued>>
vars == <<env, clock, clientVars, callVars, histVars>>

NoResp == [ok |-> FALSE, status |-> 0, body |-> "", access_token |-> NoToken,
           expires_in |-> 0, header |-> NoHeader]

\* The runs explored.  ops: the public operations the application calls;
\* active: how many calls may be in progress at once; calls: how many calls
\* are made; cfg: config.rateLimitPerSecond; grants, failures: the answers of
\* the token endpoint; statuses, headers: the answers of the resource
\* endpoints; limit: how many 429 answers they give; transport: whether a fetch may fail
\* without an answer; fine: whether the clock is also read one millisecond before and
\* after the instants at which the behaviour changes.
QuotaConfigs == {Undefined} \cup 0..MaxQuota

GovernorRuns ==
  {[ops |-> {"request"}, active |-> a, calls |-> MaxCalls, cfg |-> c,
    grants |-> {}, failures |-> TokenFailures, statuses |-> {}, headers |-> {},
    limit |-> 0, transport |-> FALSE, fine |-> TRUE,
    bodies |-> {"[]"}, name |-> ""] : a \in {1, 2}, c \in QuotaConfigs}

TokenRuns ==
  {[ops |-> {"getAccessToken"}, active |-> a, calls |-> MaxCalls, cfg |-> Undefined,
    grants |-> TokenGrants, failures |-> TokenFailures, statuses |-> {},
    headers |-> {}, limit |-> 0, transport |-> FALSE, fine |-> TRUE,
    bodies |-> {"[]"}, name |-> ""] : a \in {1, 2}}

PipelineRuns ==
  {[ops |-> {"request"}, active |-> 1, calls |-> MaxCalls - 2, cfg |-> c,
    grants |-> TokenGrants \cup {LongGrant}, failures |-> TokenFailures,
    statuses |-> Statuses, headers |-> RetryAfterHeaders, limit |-> (MAX_RETRIES + 1) * MaxCalls,
    transport |-> FALSE, fine |-> FALSE, bodies |-> {"[]"}, name |-> ""] :
     c \in QuotaConfigs}

\* two overlapping calls of either operation, against servers that answer
\* with a token that stays valid for one second, and with 200 or 429 (twice)
OverlapRuns ==
  {[ops |-> {"request", "getAccessToken"}, active |-> 2, calls |-> 2,
    cfg |-> c, grants |-> {g \in TokenGrants : g.expires_in > 300},
    failures |-> {}, statuses |-> {200, 429}, headers |-> {NoHeader},
    limit |-> 2, transport |-> FALSE, fine |-> FALSE,
    bodies |-> {"[]"}, name |-> ""] : c \in {Undefined, 1}}

\* one caller runs testConnection(), twice, against servers that give every answer,
\* and a network that may fail
ConnectionRuns ==
  {[ops |-> {"testConnection"}, active |-> 1, calls |-> MaxCalls - 1,
    cfg |-> Undefined, grants |-> TokenGrants \cup {LongGrant},
    failures |-> TokenFailures, statuses |-> Statuses, headers |-> {NoHeader},
    limit |-> MAX_RETRIES + 1, transport |-> TRUE, fine |-> FALSE,
    bodies |-> {"[]"}, name |-> ""]}

\* one caller looks an application up by name, against servers that answer
\* the list call with any of the lists, with no content, or with 404
FinderRuns ==
  {[ops |-> {"findApplicationByName"}, active |-> 1, calls |-> MaxCalls - 2,
    cfg |-> Undefined, grants |-> {LongGrant}, failures |-> {},
    statuses |-> {200, 204, 404}, headers |-> {NoHeader}, limit |-> 0,
    transport |-> FALSE, fine |-> FALSE, bodies |-> ListBodies, name |-> n] :
     n \in Names}

\* one caller makes requests and asks for the token, against a token
\* endpoint whose grants are short-lived, and resource endpoints that answer
\* 200, or 429 once
ShortTokenRuns ==
  {[ops |-> {"request", "getAccessToken"}, active |-> 1, calls |-> MaxCalls - 1,
    cfg |-> Undefined, grants |-> ShortGrants, failures |-> {},
    statuses |-> {200, 429}, headers |-> {NoHeader}, limit |-> 1,
    transport |-> FALSE, fine |-> FALSE, bodies |-> {"[]"}, name |-> ""]}

Runs ==
  GovernorRuns \cup TokenRuns \cup PipelineRuns \cup OverlapRuns \cup ConnectionRuns
    \cup FinderRuns \cup ShortTokenRuns

\* constructor, and the field initialisers
Init ==
  /\ env \in Runs
  /\ clock = 0
  /\ rateLimitPerSecond = RateLimitOf(env.cfg)
  /\ accessToken = NoToken
  /\ tokenExpiry = 0
  /\ requestTimestamps = <<>>
  /\ pc = [p \in Procs |-> "idle"]
  /\ op = [p \in Procs |-> "none"]
  /\ outer = [p \in Procs |-> "none"]
  /\ retries = [p \in Procs |-> 0]
  /\ wakeAt = [p \in Procs |-> 0]
  /\ delay = [p \in Procs |-> 0]
  /\ token = [p \in Procs |-> NoToken]
  /\ resp = [p \in Procs |-> NoResp]
  /\ result = [p \in Procs |-> NoResult]
  /\ calls = 0
  /\ throttled = 0
  /\ fetches = [p \in Procs |-> 0]
  /\ sends = [p \in Procs |-> 0]
  /\ steps = [p \in Procs |-> <<>>]
  /\ recorded = [p \in Procs |-> 0]
  /\ lastRetryDelay = [p \in Procs |-> 0]
  /\ waiting = <<>>
  /\ admissions = <<>>
  /\ lastIssued = <<NoToken, 0>>

\* ------------------------------------------------------------ rate governor
\* faulty variant: the new timestamp is put at the front of the window
RecordPrepended(p, ts) ==
  /\ requestTimestamps' = <<clock>> \o ts
  /\ recorded' = [recorded EXCEPT ![p] = @ + 1]
  /\ admissions' =
       Append(SelectSeq(admissions, LAMBDA t : clock - t < 1000), clock)
  /\ waiting' = SelectSeq(waiting, LAMBDA q : q # p)
  /\ steps' = [steps EXCEPT ![p] = <<"admit">>]
  /\ pc' = [pc EXCEPT ![p] = "admitted"]

\* faulty variant: waitForRateLimit() returns without pushing a timestamp
RecordSkipped(p, ts) ==
  /\ requestTimestamps' = ts
  /\ waiting' = SelectSeq(waiting, LAMBDA q : q # p)
  /\ steps' = [steps EXCEPT ![p] = <<"admit">>]
  /\ pc' = [pc EXCEPT ![p] = "admitted"]
  /\ UNCHANGED <<recorded, admissions>>

\* this.requestTimestamps.push(Date.now()), and waitForRateLimit() returns
Record(p, ts) ==
  /\ requestTimestamps' = Append(ts, clock)
  /\ recorded' = [recorded EXCEPT ![p] = @ + 1]
  /\ admissions' =
       Append(SelectSeq(admissions, LAMBDA t : clock - t < 1000), clock)
  /\ waiting' = SelectSeq(waiting, LAMBDA q : q # p)
  /\ steps' = [steps EXCEPT ![p] = <<"admit">>]
  /\ pc' = [pc EXCEPT ![p] = "admitted"]

\* waitForRateLimit() up to its first suspension or its return
WaitForRateLimit(p) ==
  LET now == clock
      windowStart == now - WindowMs
      purged == Purge(requestTimestamps, windowStart)
      \* requestTimestamps[0] is undefined on an empty array: waitTime is NaN
      \* and `waitTime > 0` is false
      mustSleep == /\ purged # <<>>
                   /\ WaitTime(purged[1], windowStart) > 0
  IN IF WindowFull(purged, rateLimitPerSecond)
       THEN IF mustSleep
              THEN /\ requestTimestamps' = purged
                   /\ delay' = [delay EXCEPT ![p] = WaitTime(purged[1], windowStart)]
                   /\ wakeAt' = [wakeAt EXCEPT ![p] =
                                   TimerDeadline(now, WaitTime(purged[1], windowStart))]
                   /\ waiting' = Append(waiting, p)
                   /\ steps' = [steps EXCEPT ![p] = <<>>]
                   /\ pc' = [pc EXCEPT ![p] = "rl_sleep"]
                   /\ UNCHANGED <<admissions, recorded>>
              ELSE /\ Record(p, Purge(purged, clock - WindowMs))
                   /\ UNCHANGED <<delay, wakeAt>>
       ELSE /\ Record(p, purged)
            /\ UNCHANGED <<delay, wakeAt>>

\* faulty variant: a woken caller that finds the window full again is rejected
RateLimitWakeRejects(p) ==
  /\ pc[p] = "rl_sleep"
  /\ clock >= wakeAt[p]
  /\ IF WindowFull(Purge(requestTimestamps, clock - WindowMs), rateLimitPerSecond)
       THEN /\ pc' = [pc EXCEPT ![p] = "done"]
            /\ result' = [result EXCEPT ![p] =
                            [NoResult EXCEPT !.kind = "api_error", !.status = 429]]
            /\ waiting' = SelectSeq(waiting, LAMBDA q : q # p)
            /\ UNCHANGED <<requestTimestamps, recorded, admissions, steps>>
       ELSE /\ Record(p, Purge(requestTimestamps, clock - WindowMs))
            /\ UNCHANGED result
  /\ UNCHANGED <<env, clock, rateLimitPerSecond, accessToken, tokenExpiry, op, outer,
                 retries, wakeAt, delay, token, resp, calls, throttled,
                 lastRetryDelay, fetches, sends, lastIssued>>

\* faulty variant: the woken caller records without purging again
RateLimitWakeNoPurge(p) ==
  /\ pc[p] = "rl_sleep"
  /\ clock >= wakeAt[p]
  /\ Record(p, requestTimestamps)
  /\ UNCHANGED <<env, clock, rateLimitPerSecond, accessToken, tokenExpiry, op, outer,
                 retries, wakeAt, delay, token, resp, result, calls, throttled,
                 lastRetryDelay, fetches, sends, lastIssued>>

\* the sleep of waitForRateLimit() is over: purge again, record, return
RateLimitWake(p) ==
  /\ pc[p] = "rl_sleep"
  /\ clock >= wakeAt[p]
  /\ Record(p, Purge(requestTimestamps, clock - WindowMs))
  /\ UNCHANGED <<env, clock, rateLimitPerSecond, accessToken, tokenExpiry, op, outer,
                 retries, wakeAt, delay, token, resp, result, calls, throttled, lastRetryDelay, fetches, sends,
                 lastIssued>>

\* the application may start a call of operation o as caller p (callers are
\* interchangeable: the lowest idle one starts)
MayStart(p, o) ==
  /\ pc[p] = "idle"
  /\ \A q \in Procs : q < p => pc[q] # "idle"
  /\ o \in env.ops
  /\ calls < env.calls
  /\ Cardinality({q \in Procs : pc[q] # "idle"}) < env.active
  /\ clock <= MaxClock

\* a public resource method calls request(method, path, body)
StartRequest(p) ==
  /\ MayStart(p, "request")
  /\ calls' = calls + 1
  /\ op' = [op EXCEPT ![p] = "request"]
  /\ retries' = [retries EXCEPT ![p] = MAX_RETRIES]
  /\ WaitForRateLimit(p)
  /\ UNCHANGED <<env, clock, outer, rateLimitPerSecond, accessToken, tokenExpiry, token, resp,
                 result, throttled, lastRetryDelay, fetches, sends, lastIssued>>

\* -------------------------------------------------------------- token cache
\* faulty variant: the expiry is set by the first acquisition only
NewCredentialKeepsExpiry(data, now) ==
  [accessToken |-> data.access_token,
   tokenExpiry |-> IF accessToken = NoToken
                     THEN now + data.expires_in * MsPerSecond
                     ELSE tokenExpiry]

\* faulty variant: the lifetime is added as if it were in milliseconds
NewCredentialInSeconds(data, now) ==
  [accessToken |-> data.access_token,
   tokenExpiry |-> now + data.expires_in]

\* data.access_token, Date.now() + data.expires_in * 1000
NewCredential(data, now) ==
  [accessToken |-> data.access_token,
   tokenExpiry |-> now + data.expires_in * MsPerSecond]

\* faulty variant: request() resolves with the token instead of sending
TokenReturnedResolves(p, o, tok) ==
  /\ token' = [token EXCEPT ![p] = tok]
  /\ pc' = [pc EXCEPT ![p] = "done"]
  /\ result' = [result EXCEPT ![p] =
                  [NoResult EXCEPT !.kind = "token", !.token = tok]]
  /\ steps' = [steps EXCEPT ![p] = @ \o <<"token">>]
  /\ UNCHANGED sends

\* getAccessToken() has returned tok to caller p running operation o: a
\* request() goes on to fetch(url, ...), a direct call resolves
TokenReturned(p, o, tok) ==
  /\ token' = [token EXCEPT ![p] = tok]
  /\ IF o = "request"
       THEN /\ pc' = [pc EXCEPT ![p] = "send"]
            /\ sends' = [sends EXCEPT ![p] = @ + 1]
            /\ steps' = [steps EXCEPT ![p] = @ \o <<"token", "send">>]
            /\ UNCHANGED result
       ELSE /\ pc' = [pc EXCEPT ![p] = "done"]
            /\ result' = [result EXCEPT ![p] =
                            [NoResult EXCEPT !.kind = "token", !.token = tok]]
            /\ steps' = [steps EXCEPT ![p] = @ \o <<"token">>]
            /\ UNCHANGED sends

\* faulty variant: the cache is never consulted
GetAccessTokenUncached(p, o) ==
  /\ pc' = [pc EXCEPT ![p] = "tok_fetch"]
  /\ fetches' = [fetches EXCEPT ![p] = @ + 1]
  /\ UNCHANGED <<token, sends, steps, result>>

\* faulty variant: a caller that finds an acquisition in flight joins it
\* instead of sending its own request
GetAccessTokenJoined(p, o) ==
  IF CacheValid(accessToken, tokenExpiry, clock)
    THEN /\ TokenReturned(p, o, accessToken)
         /\ UNCHANGED fetches
    ELSE /\ pc' = [pc EXCEPT ![p] =
                    IF \E q \in Procs \ {p} : pc[q] = "tok_fetch"
                      THEN "tok_join" ELSE "tok_fetch"]
         /\ fetches' = [fetches EXCEPT ![p] =
                          IF \E q \in Procs \ {p} : pc[q] = "tok_fetch"
                            THEN @ ELSE @ + 1]
         /\ UNCHANGED <<token, sends, steps, result>>

\* faulty variant: a cached token is returned whatever its expiry
GetAccessTokenUnexpiring(p, o) ==
  IF accessToken # NoToken
    THEN /\ TokenReturned(p, o, accessToken)
         /\ UNCHANGED fetches
    ELSE /\ pc' = [pc EXCEPT ![p] = "tok_fetch"]
         /\ fetches' = [fetches EXCEPT ![p] = @ + 1]
         /\ UNCHANGED <<token, sends, steps, result>>

\* getAccessToken() up to its first suspension or its return
GetAccessToken(p, o) ==
  IF CacheValid(accessToken, tokenExpiry, clock)
    THEN /\ TokenReturned(p, o, accessToken)
         /\ UNCHANGED fetches
    ELSE /\ pc' = [pc EXCEPT ![p] = "tok_fetch"]
         /\ fetches' = [fetches EXCEPT ![p] = @ + 1]
         /\ UNCHANGED <<token, sends, steps, result>>

\* a caller calls the public getAccessToken()
CallGetAccessToken(p) ==
  /\ MayStart(p, "getAccessToken")
  /\ calls' = calls + 1
  /\ op' = [op EXCEPT ![p] = "getAccessToken"]
  /\ GetAccessToken(p, "getAccessToken")
  /\ UNCHANGED <<env, clock, outer, clientVars, retries, wakeAt, delay, resp, throttled, lastRetryDelay,
                 recorded, waiting, admissions, lastIssued>>

\* faulty variant: the token acquisition of testConnection() waits for the
\* governor and takes a slot of the window
CallTestConnectionGoverned(p) ==
  /\ MayStart(p, "testConnection")
  /\ calls' = calls + 1
  /\ outer' = [outer EXCEPT ![p] = "testConnection"]
  /\ op' = [op EXCEPT ![p] = "getAccessToken"]
  /\ WaitForRateLimit(p)
  /\ UNCHANGED <<env, clock, rateLimitPerSecond, accessToken, tokenExpiry, retries, token,
                 resp, result, throttled, lastRetryDelay, fetches, sends, lastIssued>>

\* the application calls testConnection(): `await this.getAccessToken()`
CallTestConnection(p) ==
  /\ MayStart(p, "testConnection")
  /\ calls' = calls + 1
  /\ outer' = [outer EXCEPT ![p] = "testConnection"]
  /\ op' = [op EXCEPT ![p] = "getAccessToken"]
  /\ GetAccessToken(p, "getAccessToken")
  /\ UNCHANGED <<env, clock, clientVars, retries, wakeAt, delay, resp, throttled,
                 recorded, lastRetryDelay, waiting, admissions, lastIssued>>

\* testConnection() has its token: `await this.listApplications()`, which
\* calls request('GET', '/api/v2/clients')
TestConnectionList(p) ==
  /\ pc[p] = "done"
  /\ outer[p] = "testConnection"
  /\ op[p] = "getAccessToken"
  /\ result[p].kind = "token"
  /\ op' = [op EXCEPT ![p] = "request"]
  /\ retries' = [retries EXCEPT ![p] = MAX_RETRIES]
  /\ token' = [token EXCEPT ![p] = NoToken]
  /\ result' = [result EXCEPT ![p] = NoResult]
  /\ WaitForRateLimit(p)
  /\ UNCHANGED <<env, clock, rateLimitPerSecond, accessToken, tokenExpiry, outer, resp,
                 calls, throttled, fetches, sends, lastRetryDelay, lastIssued>>

\* testConnection() returns { success: true } after the list, or its catch
\* block turns the failure of either step into { success: false, error }
TestConnectionReport(p) ==
  /\ pc[p] = "done"
  /\ outer[p] = "testConnection"
  /\ op[p] \in {"getAccessToken", "request"}
  /\ ~(op[p] = "getAccessToken" /\ result[p].kind = "token")
  /\ op' = [op EXCEPT ![p] = "testConnection"]
  /\ result' = [result EXCEPT ![p] = ConnectionReport(op[p], result[p])]
  /\ UNCHANGED <<env, clock, clientVars, pc, outer, retries, wakeAt, delay, token, resp,
                 histVars>>

\* the application calls findApplicationByName(name): `await
\* this.listApplications()`, which calls request('GET', '/api/v2/clients')
CallFindByName(p) ==
  /\ MayStart(p, "findApplicationByName")
  /\ calls' = calls + 1
  /\ outer' = [outer EXCEPT ![p] = "findApplicationByName"]
  /\ op' = [op EXCEPT ![p] = "request"]
  /\ retries' = [retries EXCEPT ![p] = MAX_RETRIES]
  /\ WaitForRateLimit(p)
  /\ UNCHANGED <<env, clock, rateLimitPerSecond, accessToken, tokenExpiry, token, resp,
                 result, throttled, lastRetryDelay, fetches, sends, lastIssued>>

\* faulty variant: the last entry of that name is returned
FindByNameReturnLast(p) ==
  /\ pc[p] = "done"
  /\ outer[p] = "findApplicationByName"
  /\ op[p] = "request"
  /\ op' = [op EXCEPT ![p] = "findApplicationByName"]
  /\ LET items == result[p].value.items
         hits == {i \in DOMAIN items : items[i].name = env.name}
     IN result' = [result EXCEPT ![p] =
                     IF result[p].kind = "empty"
                       THEN [NoResult EXCEPT !.kind = "type_error"]
                     ELSE IF result[p].kind # "value" THEN result[p]
                     ELSE [NoResult EXCEPT
                             !.kind = "found",
                             !.value = IF hits = {} THEN NoValue
                                       ELSE JsonObject(items[CHOOSE i \in hits :
                                                               \A j \in hits : j <= i])]]
  /\ UNCHANGED <<env, clock, clientVars, pc, outer, retries, wakeAt, delay, token, resp,
                 histVars>>

\* findApplicationByName() has the list and returns apps.find(...); a failure
\* of the list call is the failure of the lookup, and the undefined of an
\* empty answer has no find(): a TypeError
FindByNameReturn(p) ==
  /\ pc[p] = "done"
  /\ outer[p] = "findApplicationByName"
  /\ op[p] = "request"
  /\ op' = [op EXCEPT ![p] = "findApplicationByName"]
  /\ result' = [result EXCEPT ![p] =
                  IF result[p].kind = "value"
                    THEN [NoResult EXCEPT !.kind = "found",
                                          !.value = Find(result[p].value.items, env.name)]
                    ELSE IF result[p].kind = "empty"
                      THEN [NoResult EXCEPT !.kind = "type_error"]
                      ELSE result[p]]
  /\ UNCHANGED <<env, clock, clientVars, pc, outer, retries, wakeAt, delay, token, resp,
                 histVars>>

\* a fetch() of the caller rejects: getAccessToken() or request() fails with
\* the network error
FetchFails(p) ==
  /\ pc[p] \in {"tok_fetch", "send"}
  /\ env.transport
  /\ pc' = [pc EXCEPT ![p] = "done"]
  /\ result' = [result EXCEPT ![p] = NetworkError]
  /\ UNCHANGED <<env, clock, clientVars, op, outer, retries, wakeAt, delay, token, resp,
                 histVars>>

\* faulty variant: a retry sends the token of the attempt before it, without
\* calling getAccessToken() again
AuthenticateOnce(p) ==
  /\ pc[p] = "admitted"
  /\ IF token[p] # NoToken
       THEN /\ TokenReturned(p, op[p], token[p])
            /\ UNCHANGED fetches
       ELSE GetAccessToken(p, op[p])
  /\ UNCHANGED <<env, clock, clientVars, op, outer, retries, wakeAt, delay, resp, calls,
                 throttled, lastRetryDelay, recorded, waiting, admissions, lastIssued>>

\* faulty variant: request() goes on only while no other caller is suspended
AuthenticateExclusive(p) ==
  /\ pc[p] = "admitted"
  /\ \A q \in Procs \ {p} : pc[q] \notin {"rl_sleep", "retry_sleep"}
  /\ GetAccessToken(p, op[p])
  /\ UNCHANGED <<env, clock, clientVars, op, outer, retries, wakeAt, delay, resp, calls,
                 throttled, lastRetryDelay, recorded, waiting, admissions, lastIssued>>

\* request() resumes after `await this.waitForRateLimit()`
Authenticate(p) ==
  /\ pc[p] = "admitted"
  /\ GetAccessToken(p, op[p])
  /\ UNCHANGED <<env, clock, clientVars, op, outer, retries, wakeAt, delay, resp, calls,
                 throttled, lastRetryDelay, recorded, waiting, admissions, lastIssued>>

\* the token endpoint answers POST /oauth/token
TokenResponse(p) ==
  /\ pc[p] = "tok_fetch"
  /\ \/ \E g \in env.grants :
          /\ resp' = [resp EXCEPT ![p] =
                        [NoResp EXCEPT !.ok = TRUE, !.status = 200,
                                       !.access_token = g.access_token,
                                       !.expires_in = g.expires_in]]
          /\ pc' = [pc EXCEPT ![p] = "tok_json"]
     \/ \E f \in env.failures :
          /\ resp' = [resp EXCEPT ![p] =
                        [NoResp EXCEPT !.status = f.status, !.body = f.body]]
          /\ pc' = [pc EXCEPT ![p] = "tok_text"]
  /\ UNCHANGED <<env, clock, clientVars, op, outer, retries, wakeAt, delay, token, result, histVars>>

\* `await response.json()` of getAccessToken() resolves: store and return
TokenStore(p) ==
  /\ pc[p] = "tok_json"
  /\ LET c == NewCredential(resp[p], clock) IN
       /\ accessToken' = c.accessToken
       /\ tokenExpiry' = c.tokenExpiry
       /\ TokenReturned(p, op[p], c.accessToken)
  /\ lastIssued' = <<resp[p].access_token, clock + resp[p].expires_in * 1000>>
  /\ resp' = [resp EXCEPT ![p] = NoResp]
  /\ UNCHANGED <<env, clock, rateLimitPerSecond, requestTimestamps, op, outer, retries, wakeAt,
                 delay, calls, throttled, lastRetryDelay, fetches, recorded, waiting, admissions>>

\* faulty variant: a failed acquisition drops the cached credential
TokenFailClearsCache(p) ==
  /\ pc[p] = "tok_text"
  /\ pc' = [pc EXCEPT ![p] = "done"]
  /\ result' = [result EXCEPT ![p] = AuthError(resp[p])]
  /\ resp' = [resp EXCEPT ![p] = NoResp]
  /\ accessToken' = NoToken
  /\ tokenExpiry' = 0
  /\ UNCHANGED <<env, clock, rateLimitPerSecond, requestTimestamps, op, outer, retries,
                 wakeAt, delay, token, histVars>>

\* faulty variant: a failed acquisition is retried like a 429 while budget is left
TokenFailRetried(p) ==
  /\ pc[p] = "tok_text"
  /\ IF retries[p] > 0
       THEN /\ pc' = [pc EXCEPT ![p] = "retry_sleep"]
            /\ delay' = [delay EXCEPT ![p] = DEFAULT_RETRY_DELAY]
            /\ wakeAt' = [wakeAt EXCEPT ![p] = clock + DEFAULT_RETRY_DELAY]
            /\ UNCHANGED result
       ELSE /\ pc' = [pc EXCEPT ![p] = "done"]
            /\ result' = [result EXCEPT ![p] = AuthError(resp[p])]
            /\ UNCHANGED <<delay, wakeAt>>
  /\ resp' = [resp EXCEPT ![p] = NoResp]
  /\ UNCHANGED <<env, clock, clientVars, op, outer, retries, token, histVars>>

\* `await response.text()` of getAccessToken() resolves: throw
TokenFail(p) ==
  /\ pc[p] = "tok_text"
  /\ pc' = [pc EXCEPT ![p] = "done"]
  /\ result' = [result EXCEPT ![p] = AuthError(resp[p])]
  /\ resp' = [resp EXCEPT ![p] = NoResp]
  /\ UNCHANGED <<env, clock, clientVars, op, outer, retries, wakeAt, delay, token, histVars>>

\* --------------------------------------------------------- request pipeline
\* body text of a non-success resource response
ErrorBody(status) == IF status = 429 THEN "Too Many Requests" ELSE "Not Found"

\* the resource endpoint answers; request() classifies the response
SendResponse(p) ==
  /\ pc[p] = "send"
  /\ \E st \in env.statuses, h \in env.headers \cup {NoHeader} :
       /\ st = 429 => throttled < env.limit
       /\ throttled' = IF st = 429 THEN throttled + 1 ELSE throttled
       /\ IF ShouldRetry(st, retries[p])
         THEN /\ delay' = [delay EXCEPT ![p] = RetryDelay(h)]
              /\ lastRetryDelay' = [lastRetryDelay EXCEPT ![p] = RetryDelay(h)]
              /\ wakeAt' = [wakeAt EXCEPT ![p] = TimerDeadline(clock, RetryDelay(h))]
              /\ resp' = [resp EXCEPT ![p] =
                            [NoResp EXCEPT !.status = st, !.header = h]]
              /\ pc' = [pc EXCEPT ![p] = "retry_sleep"]
              /\ UNCHANGED result
         ELSE /\ h = NoHeader
              /\ UNCHANGED <<delay, wakeAt, lastRetryDelay>>
              /\ IF ~IsOk(st)
                   THEN /\ resp' = [resp EXCEPT ![p] =
                                      [NoResp EXCEPT !.status = st, !.body = ErrorBody(st)]]
                        /\ pc' = [pc EXCEPT ![p] = "err_text"]
                        /\ UNCHANGED result
                   ELSE IF IsNoContent(st)
                     THEN /\ pc' = [pc EXCEPT ![p] = "done"]
                          /\ result' = [result EXCEPT ![p] =
                                          [NoResult EXCEPT !.kind = "empty", !.status = st]]
                          /\ UNCHANGED resp
                     ELSE /\ \E b \in OkBodies(st, env.bodies) :
                               resp' = [resp EXCEPT ![p] =
                                          [NoResp EXCEPT !.ok = TRUE, !.status = st,
                                                         !.body = b]]
                          /\ pc' = [pc EXCEPT ![p] = "json"]
                          /\ UNCHANGED result
  /\ UNCHANGED <<env, clock, clientVars, op, outer, retries, token, calls, fetches, sends,
                 steps, recorded, waiting, admissions, lastIssued>>

\* faulty variant: the retry goes straight to the token and the send, skipping
\* waitForRateLimit()
RetryWakeUngoverned(p) ==
  /\ pc[p] = "retry_sleep"
  /\ clock >= wakeAt[p]
  /\ retries' = [retries EXCEPT ![p] = @ - 1]
  /\ resp' = [resp EXCEPT ![p] = NoResp]
  /\ steps' = [steps EXCEPT ![p] = <<>>]
  /\ pc' = [pc EXCEPT ![p] = "admitted"]
  /\ UNCHANGED <<env, clock, clientVars, op, outer, wakeAt, delay, token, result, calls,
                 throttled, lastRetryDelay, fetches, sends, recorded, waiting, admissions, lastIssued>>

\* the retry sleep is over: request(method, path, body, retries - 1)
RetryWake(p) ==
  /\ pc[p] = "retry_sleep"
  /\ clock >= wakeAt[p]
  /\ retries' = [retries EXCEPT ![p] = @ - 1]
  /\ resp' = [resp EXCEPT ![p] = NoResp]
  /\ WaitForRateLimit(p)
  /\ UNCHANGED <<env, clock, rateLimitPerSecond, accessToken, tokenExpiry, op, outer, token,
                 result, calls, throttled, lastRetryDelay, fetches, sends, lastIssued>>

\* `await response.text()` of request() resolves: throw
ErrorText(p) ==
  /\ pc[p] = "err_text"
  /\ pc' = [pc EXCEPT ![p] = "done"]
  /\ result' = [result EXCEPT ![p] = ApiError(resp[p])]
  /\ resp' = [resp EXCEPT ![p] = NoResp]
  /\ UNCHANGED <<env, clock, clientVars, op, outer, retries, wakeAt, delay, token, histVars>>

\* response.json() settles: request() resolves with the parsed body, or
\* fails with the SyntaxError of a body that is not JSON
JsonBody(p) ==
  /\ pc[p] = "json"
  /\ pc' = [pc EXCEPT ![p] = "done"]
  /\ LET parsed == ParseJson(resp[p].body) IN
       result' = [result EXCEPT ![p] =
                    IF parsed.ok
                      THEN [NoResult EXCEPT !.kind = "value", !.status = resp[p].status,
                                            !.value = parsed.value]
                      ELSE [NoResult EXCEPT !.kind = "syntax_error",
                                            !.status = resp[p].status,
                                            !.body = resp[p].body]]
  /\ resp' = [resp EXCEPT ![p] = NoResp]
  /\ UNCHANGED <<env, clock, clientVars, op, outer, retries, wakeAt, delay, token, histVars>>

\* the caller has its outcome and may start another operation
Return(p) ==
  /\ pc[p] = "done"
  /\ outer[p] = "none" \/ op[p] = outer[p]
  /\ pc' = [pc EXCEPT ![p] = "idle"]
  /\ op' = [op EXCEPT ![p] = "none"]
  /\ outer' = [outer EXCEPT ![p] = "none"]
  /\ retries' = [retries EXCEPT ![p] = 0]
  /\ wakeAt' = [wakeAt EXCEPT ![p] = 0]
  /\ delay' = [delay EXCEPT ![p] = 0]
  /\ token' = [token EXCEPT ![p] = NoToken]
  /\ result' = [result EXCEPT ![p] = NoResult]
  /\ fetches' = [fetches EXCEPT ![p] = 0]
  /\ sends' = [sends EXCEPT ![p] = 0]
  /\ steps' = [steps EXCEPT ![p] = <<>>]
  /\ recorded' = [recorded EXCEPT ![p] = 0]
  /\ lastRetryDelay' = [lastRetryDelay EXCEPT ![p] = 0]
  /\ UNCHANGED <<env, clock, clientVars, resp, calls, throttled, waiting, admissions,
                 lastIssued>>

\* -------------------------------------------------------------------- clock
Sleeping(p) == pc[p] \in {"rl_sleep", "retry_sleep"}

Deadlines == {wakeAt[p] : p \in {q \in Procs : Sleeping(q)}}

\* the instants the clock is observed at: a timer deadline, the instant a
\* timestamp leaves the window, the instant the token goes stale, and the
\* millisecond around each
Around == IF env.fine THEN {-1, 0, 1} ELSE {0}

Instants ==
  {d + j : d \in Deadlines, j \in Around \cap {0, 1}}
    \cup {t + 1000 + j : t \in Range(requestTimestamps), j \in Around}
    \cup {tokenExpiry - 300000 + j : j \in Around}

\* time passes; past MaxClock only up to a pending timer
Tick ==
  /\ \E t \in Instants :
       /\ t > clock
       /\ t <= MaxClock \/ t \in Deadlines
       /\ clock' = t
  /\ UNCHANGED <<env, clientVars, callVars, histVars>>

\* ------------------------------------------------------------ specification
Step(p) ==
  \/ RateLimitWake(p)
  \/ Authenticate(p)
  \/ TokenResponse(p)
  \/ TokenStore(p)
  \/ TokenFail(p)
  \/ SendResponse(p)
  \/ RetryWake(p)
  \/ ErrorText(p)
  \/ JsonBody(p)
  \/ FetchFails(p)
  \/ TestConnectionList(p)
  \/ TestConnectionReport(p)
  \/ FindByNameReturn(p)

Next ==
  \/ Tick
  \/ \E p \in Procs :
       \/ StartRequest(p)
       \/ CallGetAccessToken(p)
       \/ CallTestConnection(p)
       \/ CallFindByName(p)
       \/ Step(p)
       \/ Return(p)

Spec == Init /\ [][Next]_vars

\* every timer fires and every network exchange completes
Fairness == WF_vars(Tick) /\ \A p \in Procs : WF_vars(Step(p))

LiveSpec == Spec /\ Fairness

\* ------------------------------------------------------------------ claims
Admitted(p) == pc[p] # "admitted" /\ pc'[p] = "admitted"

\* C1: when the calls are made one after another and the quota is at least
\* 1, the 1000 ms that end at any admission hold at most rateLimitPerSecond
\* admission timestamps.
C1_SequentialWindow ==
  (env.active = 1 /\ rateLimitPerSecond >= 1)
    => Len(admissions) <= rateLimitPerSecond

\* a sequential caller found the window full, slept, and was admitted
C1_Witness ==
  /\ env.active = 1
  /\ rateLimitPerSecond = 1
  /\ Len(admissions) = 1
  /\ \E p \in Procs : pc[p] = "admitted" /\ sends[p] = 0 /\ delay[p] > 0

\* C2: whatever the overlap of the calls, with a quota of at least 1 the
\* 1000 ms that end at any admission hold at most rateLimitPerSecond
\* admission timestamps.
C2_ConcurrentWindow ==
  rateLimitPerSecond >= 1 => Len(admissions) <= rateLimitPerSecond

\* C3: in a run of sequential calls, while the credential of the latest
\* acquisition is within its validity (now < t0 + L*1000 - 300000) no step
\* issues a POST /oauth/token, no step replaces the credential, and every
\* token handed to a caller is the cached one.
C3_TokenReuse ==
  [][(/\ env.active = 1
      /\ lastIssued[1] # NoToken
      /\ clock < lastIssued[2] - 300000)
       => /\ \A p \in Procs : pc'[p] = "tok_fetch" => pc[p] = "tok_fetch"
          /\ \A p \in Procs : fetches'[p] <= fetches[p]
          /\ \A p \in Procs :
               (token'[p] # token[p] /\ token'[p] # NoToken)
                 => token'[p] = lastIssued[1]
          /\ lastIssued' = lastIssued]_vars

\* the third sequential call got the cached token without a fetch
C3_Witness ==
  /\ env.active = 1
  /\ calls = 3
  /\ \E p \in Procs :
       /\ pc[p] = "done"
       /\ op[p] = "getAccessToken"
       /\ fetches[p] = 0
       /\ result[p].kind = "token"
       /\ result[p].token = lastIssued[1]

\* caller p enters getAccessToken() in this step
EntersGetAccessToken(p) ==
  \/ pc[p] = "admitted" /\ pc'[p] # "admitted"
  \/ pc[p] = "idle" /\ op'[p] = "getAccessToken"

\* C4: getAccessToken() returns the cached token without a fetch exactly
\* when a token is cached and now < expiry - 300000; with expiry =
\* now + 300000 - 1 it fetches, with expiry = now + 300000 + 1 it does not.
C4_RefreshBoundary ==
  [][\A p \in Procs :
       EntersGetAccessToken(p) =>
         /\ (pc'[p] # "tok_fetch" /\ fetches'[p] = fetches[p] /\ token'[p] = accessToken)
              <=> (accessToken # NoToken /\ clock < tokenExpiry - 300000)
         /\ (accessToken # NoToken /\ tokenExpiry = clock + 300000 - 1)
              => (pc'[p] = "tok_fetch" /\ fetches'[p] = fetches[p] + 1)
         /\ (accessToken # NoToken /\ tokenExpiry = clock + 300000 + 1)
              => (pc'[p] # "tok_fetch" /\ fetches'[p] = fetches[p])]_vars

\* a token that expires in 5 min - 1 ms is being reacquired
C4_Witness ==
  /\ accessToken # NoToken
  /\ tokenExpiry = clock + 300000 - 1
  /\ \E p \in Procs : pc[p] = "tok_fetch" /\ fetches[p] = 1

\* C5: the cached (accessToken, tokenExpiry) is always the pair one
\* acquisition wrote (the latest), or the initial empty pair.
C5_CredentialPairing == <<accessToken, tokenExpiry>> = lastIssued

\* an acquisition that overlapped the one whose credential is cached (and
\* still valid) is about to store a different token
C5_Witness ==
  /\ CacheValid(accessToken, tokenExpiry, clock)
  /\ \E p \in Procs :
       /\ pc[p] = "tok_json"
       /\ resp[p].access_token # accessToken

\* C6: a non-success answer of the token endpoint ends getAccessToken() with
\* an error that carries the HTTP status and the body text, and none of the
\* steps of the failing acquisition changes the cached credential.
C6_AcquisitionFailure ==
  [][\A p \in Procs :
       /\ (pc[p] = "tok_text" /\ pc'[p] # "tok_text")
            => /\ pc'[p] = "done"
               /\ result'[p].kind = "auth_error"
               /\ result'[p].status = resp[p].status
               /\ result'[p].body = resp[p].body
       /\ (pc'[p] # pc[p] /\ (pc'[p] \in {"tok_fetch", "tok_text"} \/ pc[p] = "tok_text"))
            => (accessToken' = accessToken /\ tokenExpiry' = tokenExpiry)]_vars

\* a 401 "Unauthorized" ended a call while a stale token is cached
C6_Witness ==
  /\ accessToken # NoToken
  /\ \E p \in Procs :
       /\ pc[p] = "done"
       /\ result[p].kind = "auth_error"
       /\ result[p].status = 401
       /\ result[p].body = "Unauthorized"

\* C7: a request() starts with a budget of 3, sends at most 4 times, never
\* lets the budget go below 0, and fails with the 429 error after the 4th
\* send when all four were answered 429.
C7_RetryExhaustion ==
  \A p \in Procs :
    /\ retries[p] >= 0
    /\ sends[p] <= 4
    /\ (op[p] = "request" /\ pc[p] \in {"send", "retry_sleep"})
         => sends[p] + retries[p] = 4
    /\ (op[p] = "request" /\ sends[p] = 0) => retries[p] = 3
    /\ pc[p] = "retry_sleep" => retries[p] > 0
    /\ (result[p].kind = "api_error" /\ result[p].status = 429)
         => (sends[p] = 4 /\ retries[p] = 0)

\* four sends were all answered 429 and the call failed with that status
C7_Witness ==
  \E p \in Procs :
    /\ pc[p] = "done"
    /\ result[p].kind = "api_error"
    /\ result[p].status = 429
    /\ sends[p] = 4
    /\ throttled = 4

TerminalKinds == {"value", "empty", "api_error", "auth_error"}

\* C8: when every timer fires and every exchange completes (env.transport
\* says that one may not), each request() ends in one of the four terminal
\* states.
C8_Termination ==
  \A p \in Procs :
    (op[p] = "request" /\ ~env.transport)
      ~> (pc[p] = "done" /\ result[p].kind \in TerminalKinds)

\* a request resolved with a value after a retry
C8_Witness ==
  \E p \in Procs :
    /\ op[p] = "request"
    /\ pc[p] = "done"
    /\ result[p].kind = "value"
    /\ sends[p] >= 2

\* C9 (as claimed): a caller records its admission only when no caller that
\* invoked waitForRateLimit() before it is still waiting.
C9_AdmissionOrder ==
  [][\A p \in Procs :
       Admitted(p) => (waiting = <<>> \/ Head(waiting) = p)]_vars

\* C9 (amended): the callers that have invoked waitForRateLimit() and are not
\* yet recorded are exactly the suspended ones, and their wake-up deadlines
\* follow the order of invocation.
C9_DeadlineOrder ==
  /\ \A p \in Procs : pc[p] = "rl_sleep" <=> p \in Range(waiting)
  /\ \A i, j \in 1..Len(waiting) :
       i < j => wakeAt[waiting[i]] <= wakeAt[waiting[j]]

\* two callers are suspended, the second invoked 999 ms after the first
C9_Witness ==
  /\ Len(waiting) = 2
  /\ clock > 0
  /\ wakeAt[waiting[2]] - delay[waiting[2]] > wakeAt[waiting[1]] - delay[waiting[1]]

AttemptStages == <<"admit", "token", "send">>

\* C10: in each attempt of a request() the admission comes first, then the
\* token, then the send; a request is in flight or answered only after an
\* admission and a token of that same attempt.
C10_StepOrder ==
  \A p \in Procs :
    op[p] = "request" =>
      /\ \E n \in 0..3 : steps[p] = SubSeq(AttemptStages, 1, n)
      /\ pc[p] \in {"tok_fetch", "tok_json", "tok_text"} => steps[p] = <<"admit">>
      /\ pc[p] \in {"send", "retry_sleep", "err_text", "json"}
           => (steps[p] = AttemptStages /\ token[p] # NoToken)

\* the send of a retried attempt is in flight
C10_Witness ==
  \E p \in Procs :
    /\ pc[p] = "send"
    /\ sends[p] >= 2
    /\ steps[p] = AttemptStages

\* the number the retry-after header of a response carries:
\* parseInt(response.headers.get('retry-after'), 10), NaN without a header
HeaderValue(h) == IF h.present THEN ParseInt(h.text) ELSE NaN

\* caller p, answered 429 with budget left, starts its retry sleep in this step
StartsRetrySleep(p) == pc[p] = "send" /\ pc'[p] = "retry_sleep"

\* C11: a 429 with retry-after = s > 0 and budget r > 0 suspends the call
\* for s*1000 ms: the timer is set s*1000 ms ahead, nothing is sent while the
\* call sleeps, the sleep ends only at or after the deadline, and the next
\* attempt runs (and sends) with budget r - 1.
C11_RetryAfterRespected ==
  [][\A p \in Procs :
       /\ (StartsRetrySleep(p) /\ ~HeaderValue(resp'[p].header).nan
             /\ HeaderValue(resp'[p].header).val > 0)
            => /\ retries[p] > 0
               /\ delay'[p] = HeaderValue(resp'[p].header).val * 1000
               /\ wakeAt'[p] = clock + HeaderValue(resp'[p].header).val * 1000
       /\ pc[p] = "retry_sleep"
            => /\ sends'[p] = sends[p]
               /\ pc'[p] # "retry_sleep"
                    => (clock >= wakeAt[p] /\ retries'[p] = retries[p] - 1)
       /\ sends'[p] > sends[p] => retries'[p] = retries[p]]_vars

\* the second send of a call is in flight 2000 ms or more after a 429 with
\* retry-after: 2, with a budget of 2
C11_Witness ==
  \E p \in Procs :
    /\ pc[p] = "send"
    /\ sends[p] = 2
    /\ retries[p] = 2
    /\ delay[p] = 2000
    /\ clock >= 2000

\* C12: a 429 with budget left whose retry-after is 0 or a negative integer
\* suspends the call for the default 1000 ms.
C12_NonPositiveFallback ==
  \A p \in Procs :
    (/\ pc[p] = "retry_sleep"
     /\ ~HeaderValue(resp[p].header).nan
     /\ HeaderValue(resp[p].header).val <= 0)
      => delay[p] = DEFAULT_RETRY_DELAY

\* C13: a 429 with budget left whose retry-after header is absent or does
\* not parse as an integer suspends the call for 1000 ms.
C13_RetryAfterDefault ==
  [][\A p \in Procs :
       (StartsRetrySleep(p) /\ HeaderValue(resp'[p].header).nan)
         => /\ delay'[p] = 1000
            /\ wakeAt'[p] = clock + 1000]_vars

\* a call answered 429 with retry-after: x sleeps 1000 ms
C13_Witness ==
  \E p \in Procs :
    /\ pc[p] = "retry_sleep"
    /\ resp[p].header = Header(<<"x">>)
    /\ delay[p] = 1000
    /\ wakeAt[p] = clock + 1000

\* C14 (as claimed): a call that has performed k sends has added exactly k
\* timestamps to the window.
C14_TimestampPerSend ==
  \A p \in Procs :
    (op[p] = "request" /\ pc[p] = "done") => recorded[p] = sends[p]

\* C14 (amended): every attempt records exactly one timestamp before its
\* token step and its send: an attempt that is waiting for the governor has
\* recorded nothing yet, one that is acquiring its token has recorded and
\* not sent, one that has sent has recorded once per send; a finished call
\* has one timestamp per send, and one more when its last attempt ended
\* before its send, as it does when it fails to acquire a token.
C14_TimestampPerAttempt ==
  \A p \in Procs :
    op[p] = "request" =>
      /\ pc[p] = "rl_sleep" => recorded[p] = sends[p]
      /\ pc[p] \in {"admitted", "tok_fetch", "tok_json", "tok_text"}
           => recorded[p] = sends[p] + 1
      /\ pc[p] \in {"send", "retry_sleep", "err_text", "json"}
           => recorded[p] = sends[p]
      /\ pc[p] = "done"
           => /\ recorded[p] = sends[p] + (IF steps[p] = <<"admit">> THEN 1 ELSE 0)
              /\ result[p].kind = "auth_error" => steps[p] = <<"admit">>

\* the retry of a call failed to acquire a token: one send, two timestamps
C14_Witness ==
  \E p \in Procs :
    /\ pc[p] = "done"
    /\ result[p].kind = "auth_error"
    /\ sends[p] = 1
    /\ recorded[p] = 2

\* C15: when the token acquisition of a request() attempt fails, the call
\* ends at once with the authentication error (status and body of the token
\* endpoint's answer); that attempt sends nothing, the budget is left as it
\* was, and the failed call makes no further attempt.
C15_AuthFailureNotRetried ==
  [][\A p \in Procs :
       op[p] = "request" =>
         /\ pc[p] = "tok_text"
              => /\ steps[p] = <<"admit">>
                 /\ pc'[p] # "tok_text"
                      => /\ pc'[p] = "done"
                         /\ result'[p] = AuthError(resp[p])
                         /\ sends'[p] = sends[p]
                         /\ retries'[p] = retries[p]
                         /\ recorded'[p] = recorded[p]
         /\ (pc[p] = "done" /\ result[p].kind = "auth_error")
              => /\ pc'[p] \in {"done", "idle"}
                 /\ sends'[p] \in {sends[p], 0}
                 /\ recorded'[p] \in {recorded[p], 0}
                 /\ fetches'[p] \in {fetches[p], 0}
                 /\ retries'[p] \in {retries[p], 0}]_vars

\* the token acquisition of the second attempt failed: the call ended with
\* the 401, one send, and the budget of 2 it retried with
C15_Witness ==
  \E p \in Procs :
    /\ op[p] = "request"
    /\ pc[p] = "done"
    /\ result[p].kind = "auth_error"
    /\ result[p].status = 401
    /\ sends[p] = 1
    /\ retries[p] = 2

\* C16: a response with a non-2xx status other than 429 is never retried,
\* whatever the budget: no timer is set, the budget stays, the body text is
\* read and request() fails with an error that carries that status and that
\* text; nothing is sent after that response, so the failing attempt was sent
\* exactly once (one send when it is the first answer of the call).
C16_ApiErrorNotRetried ==
  [][\A p \in Procs :
       /\ (pc[p] = "send" /\ pc'[p] # "send"
             /\ resp'[p].status >= 300 /\ resp'[p].status # 429)
            => /\ pc'[p] = "err_text"
               /\ resp'[p].body = ErrorBody(resp'[p].status)
               /\ retries'[p] = retries[p]
               /\ wakeAt'[p] = wakeAt[p]
       /\ (pc[p] = "err_text" /\ pc'[p] # "err_text")
            => /\ pc'[p] = "done"
               /\ result'[p].kind = "api_error"
               /\ result'[p].status = resp[p].status
               /\ result'[p].body = resp[p].body
               /\ sends'[p] = sends[p]
               /\ retries'[p] = retries[p]
       /\ (pc[p] = "done" /\ result[p].kind = "api_error")
            => /\ pc'[p] \in {"done", "idle"}
               /\ sends'[p] \in {sends[p], 0}
               /\ result[p].status # 429
                    => sends[p] = 1 + (MAX_RETRIES - retries[p])]_vars

\* a 404 answered the first send of a call with its whole budget: the call
\* failed with 404 "Not Found" after one send
C16_Witness ==
  \E p \in Procs :
    /\ pc[p] = "done"
    /\ result[p] = [kind |-> "api_error", status |-> 404, body |-> "Not Found",
                    token |-> NoToken, value |-> NoValue, success |-> FALSE, error |-> NoMessage]
    /\ sends[p] = 1
    /\ retries[p] = MAX_RETRIES

\* C17: a 204 answer resolves request() with undefined and its body is never
\* handed to the JSON parser; any other 2xx answer is parsed and request()
\* resolves with the parsed value.
C17_EmptyBody ==
  [][\A p \in Procs :
       /\ (pc[p] = "send" /\ pc'[p] = "done" /\ result'[p] # NetworkError)
            => result'[p] = [NoResult EXCEPT !.kind = "empty", !.status = 204]
       /\ pc[p] = "json" => (IsOk(resp[p].status) /\ resp[p].status # 204)
       /\ (pc[p] = "json" /\ pc'[p] # "json")
            => /\ pc'[p] = "done"
               /\ result'[p].kind = "value"
               /\ result'[p].status = resp[p].status
               /\ result'[p].value = ParseJson(resp[p].body).value
               /\ result'[p].value.defined
       /\ result'[p].status = 204
            => (result'[p].kind = "empty" /\ ~result'[p].value.defined)
       /\ (result'[p].kind = "empty" /\ result[p].kind # "empty")
            => pc[p] = "send"]_vars

\* a 204 answered the retry of a call, which resolved with undefined
C17_Witness ==
  \E p \in Procs :
    /\ pc[p] = "done"
    /\ result[p].kind = "empty"
    /\ result[p].status = 204
    /\ ~result[p].value.defined
    /\ sends[p] = 2

FailureKinds == {"auth_error", "api_error", "network_error"}

\* C18: testConnection() always resolves, and only with a report: the report
\* says success exactly when the list call that follows the token
\* acquisition resolved, and otherwise carries the message (status and text)
\* of the failure that ended either step, whether an authentication error, an
\* API error, a 429 after the last retry or a failed fetch.
C18_SelfTest ==
  /\ [][\A p \in Procs :
          outer[p] = "testConnection" =>
            /\ (op[p] # "testConnection" /\ op'[p] = "testConnection")
                 => /\ pc'[p] = "done"
                    /\ result'[p].kind = "report"
                    /\ result'[p].success
                         <=> (op[p] = "request" /\ result[p].kind \in {"value", "empty"})
                    /\ result'[p].success => result'[p].error = NoMessage
                    /\ ~result'[p].success
                         => /\ result[p].kind \in FailureKinds
                            /\ result'[p].error # NoMessage
                            /\ result'[p].error.status = result[p].status
                            /\ result'[p].error.text = result[p].body
            /\ (op[p] = "getAccessToken" /\ op'[p] = "request")
                 => result[p].kind = "token"
            /\ op[p] = "testConnection"
                 => (pc[p] = "done" /\ result[p].kind = "report")
            /\ pc'[p] = "idle" => op[p] = "testConnection"]_vars
  /\ \A p \in Procs :
       (outer[p] = "testConnection")
         ~> (op[p] = "testConnection" /\ result[p].kind = "report")

\* the list call of a testConnection() was answered 429 four times: the
\* report carries the message of the API error
C18_Witness ==
  \E p \in Procs :
    /\ outer[p] = "testConnection"
    /\ op[p] = "testConnection"
    /\ pc[p] = "done"
    /\ sends[p] = 4
    /\ result[p] =
         [NoResult EXCEPT !.kind = "report",
                          !.error = [prefix |-> "Auth0 API error:", status |-> 429,
                                     text |-> "Too Many Requests"]]

\* C19: a retry wait starts only on a 429 answer; a request() that resolves
\* has made one send more than it made retry waits, so k 429 answers followed
\* by a 2xx give k waits and k + 1 sends, and the call resolves with that 2xx;
\* an attempt that finds the cached token valid sends with it without a token
\* request, so while the token stays valid the call makes one acquisition at
\* most.
C19_RetryThenSuccess ==
  [][\A p \in Procs :
       op[p] = "request" =>
         /\ (pc'[p] = "retry_sleep" /\ pc[p] # "retry_sleep")
              => (pc[p] = "send" /\ resp'[p].status = 429 /\ retries[p] \in 1..3)
         /\ (pc[p] = "done" /\ result[p].kind \in {"value", "empty"})
              => /\ IsOk(result[p].status)
                 /\ sends[p] = (MAX_RETRIES - retries[p]) + 1
                 /\ recorded[p] = sends[p]
         /\ (pc[p] = "admitted" /\ pc'[p] # "admitted"
               /\ CacheValid(accessToken, tokenExpiry, clock))
              => /\ fetches'[p] = fetches[p]
                 /\ pc'[p] = "send"
                 /\ token'[p] = accessToken
         /\ (env.active = 1 /\ fetches'[p] > fetches[p] /\ fetches[p] >= 1)
              => ~CacheValid(accessToken, tokenExpiry, clock)]_vars

\* on a fresh client the first send was answered 429 with retry-after: 1 and
\* the retry 200: one token request and two sends, three fetches in all
C19_Witness ==
  \E p \in Procs :
    /\ calls = 1
    /\ pc[p] = "done"
    /\ result[p].kind = "value"
    /\ result[p].status = 200
    /\ throttled = 1
    /\ delay[p] = 1000
    /\ clock >= 1000
    /\ retries[p] = 2
    /\ fetches[p] + sends[p] = 3

\* C20: within one request() call, each retry sleep after the first is
\* strictly longer than the retry sleep before it (stated for the sleeps of
\* positive length).
C20_ExponentialBackoff ==
  [][\A p \in Procs :
       (StartsRetrySleep(p) /\ lastRetryDelay[p] > 0 /\ delay'[p] > 0)
         => delay'[p] > lastRetryDelay[p]]_vars

\* the token acquisition of caller q is in flight: its POST /oauth/token is
\* sent and getAccessToken() has not yet stored or thrown
AcquisitionInFlight(q) == pc[q] \in {"tok_fetch", "tok_json", "tok_text"}

\* C21: a caller that enters getAccessToken() while the acquisition of
\* another caller is in flight and the cache is empty or stale sends its own
\* POST /oauth/token.
C21_NoRefreshDeduplication ==
  [][\A p \in Procs :
       (/\ EntersGetAccessToken(p)
        /\ \E q \in Procs \ {p} : AcquisitionInFlight(q)
        /\ ~CacheValid(accessToken, tokenExpiry, clock))
         => /\ pc'[p] = "tok_fetch"
            /\ fetches'[p] = fetches[p] + 1]_vars

\* two acquisitions are in flight on the one client
C21_Witness ==
  /\ Cardinality({q \in Procs : pc[q] = "tok_fetch"}) = 2
  /\ accessToken = NoToken

\* C22 (as claimed): while a caller is between the initial purge and the
\* recording of its timestamp, suspended in waitForRateLimit(), no step
\* changes requestTimestamps.
C22_AdmissionUnit ==
  [][\A p \in Procs :
       (pc[p] = "rl_sleep" /\ pc'[p] = "rl_sleep")
         => requestTimestamps' = requestTimestamps]_vars

\* C22 (amended): the window changes only in a step of waitForRateLimit():
\* the step that suspends a caller leaves the purged window, and the step
\* that admits a caller, at once or after its sleep, purges the window as it
\* is at that instant and appends the clock to it; between the two steps of
\* a suspended caller the other callers may purge and record.
C22_AdmissionSteps ==
  [][/\ \A p \in Procs :
          /\ Admitted(p)
               => requestTimestamps' =
                    Append(Purge(requestTimestamps, clock - 1000), clock)
          /\ (pc[p] # "rl_sleep" /\ pc'[p] = "rl_sleep")
               => requestTimestamps' = Purge(requestTimestamps, clock - 1000)
     /\ requestTimestamps' # requestTimestamps
          => \E p \in Procs :
               Admitted(p) \/ (pc[p] # "rl_sleep" /\ pc'[p] = "rl_sleep")]_vars

\* a caller is suspended in waitForRateLimit() and the window holds a
\* timestamp recorded after it was suspended
C22_Witness ==
  \E p \in Procs :
    /\ pc[p] = "rl_sleep"
    /\ requestTimestamps # <<>>
    /\ requestTimestamps[Len(requestTimestamps)] > wakeAt[p] - delay[p]

\* C23: with a quota of at least 1, a caller that waitForRateLimit() suspends
\* leaves the suspension only by recording its timestamp and returning, its
\* timer is set once and for 1010 ms at most, and when the timers fire it
\* does leave it; a caller that is not suspended records at once.
C23_GovernorDelays ==
  /\ [][\A p \in Procs :
          rateLimitPerSecond >= 1 =>
            /\ pc[p] = "rl_sleep"
                 => /\ pc'[p] \in {"rl_sleep", "admitted"}
                    /\ wakeAt'[p] = wakeAt[p]
                    /\ result'[p] = NoResult
                    /\ pc'[p] = "admitted"
                         => (recorded'[p] = recorded[p] + 1 /\ clock >= wakeAt[p])
            /\ (pc[p] # "rl_sleep" /\ pc'[p] = "rl_sleep")
                 => (delay'[p] \in 1..1010 /\ wakeAt'[p] = clock + delay'[p])
            /\ (pc[p] \in {"idle", "retry_sleep"} /\ pc'[p] # pc[p]
                  /\ op'[p] = "request" /\ outer'[p] = "none")
                 => pc'[p] \in {"rl_sleep", "admitted"}]_vars
  /\ \A p \in Procs :
       (pc[p] = "rl_sleep" /\ rateLimitPerSecond >= 1) ~> (pc[p] = "admitted")

\* with a quota of 2 and two admissions in the window, a third call was
\* suspended and then admitted
C23_Witness ==
  \E p \in Procs :
    /\ rateLimitPerSecond = 2
    /\ pc[p] = "admitted"
    /\ sends[p] = 0
    /\ delay[p] > 0
    /\ calls = 3
    /\ clock >= wakeAt[p]

\* C24: accessToken and tokenExpiry change only in the step that completes a
\* successful acquisition, which writes the token and the expiry of the
\* answer it parsed; every other step (admission, send, retry wait, API
\* error, failed acquisition, cache hit, the clock) leaves both as they are.
C24_CredentialFrame ==
  [][<<accessToken, tokenExpiry>>' # <<accessToken, tokenExpiry>>
       => \E p \in Procs :
            /\ pc[p] = "tok_json"
            /\ pc'[p] # "tok_json"
            /\ resp[p].ok
            /\ accessToken' = resp[p].access_token
            /\ tokenExpiry' = clock + resp[p].expires_in * 1000]_vars

\* a credential is cached, unchanged since its acquisition, after a call
\* that acquired it, retried twice with it and failed with a 404
C24_Witness ==
  /\ accessToken # NoToken
  /\ <<accessToken, tokenExpiry>> = lastIssued
  /\ \E p \in Procs :
       /\ pc[p] = "done"
       /\ result[p].kind = "api_error"
       /\ result[p].status = 404
       /\ sends[p] = 3
       /\ fetches[p] = 1

\* C26: the step that completes a successful acquisition whose answer declares
\* expires_in = L sets tokenExpiry to the clock of that step + L*1000 and
\* accessToken to the answer's access_token, and hands that token to the
\* caller (a direct getAccessToken() resolves with it).
C26_ExpiryComputation ==
  [][\A p \in Procs :
       (pc[p] = "tok_json" /\ pc'[p] # "tok_json")
         => /\ tokenExpiry' = clock + resp[p].expires_in * 1000
            /\ accessToken' = resp[p].access_token
            /\ token'[p] = resp[p].access_token
            /\ op[p] = "getAccessToken"
                 => (pc'[p] = "done" /\ result'[p].kind = "token"
                       /\ result'[p].token = resp[p].access_token)
            /\ op[p] = "request" => pc'[p] = "send"]_vars

\* an acquisition that completed after the clock had moved on resolved with
\* the token of a 301 s grant, which expires 301000 ms after that instant
C26_Witness ==
  \E p \in Procs :
    /\ pc[p] = "done"
    /\ op[p] = "getAccessToken"
    /\ result[p].token = 2
    /\ accessToken = 2
    /\ clock > 0
    /\ tokenExpiry = clock + 301000

\* caller p invokes waitForRateLimit() in this step
InvokesWaitForRateLimit(p) ==
  /\ pc[p] \notin {"rl_sleep", "admitted"}
  /\ pc'[p] \in {"rl_sleep", "admitted"}

\* C27: a caller that invokes waitForRateLimit() at time now and finds, after
\* the purge, at least rateLimitPerSecond timestamps of which oldest is the
\* first, is suspended for exactly oldest - (now - 1000) + 10 ms, to wake at
\* oldest + 1010; one that finds fewer records at once; the woken caller
\* purges with the clock of its wake-up and then records.
C27_WaitFormula ==
  [][\A p \in Procs :
       LET purged == Purge(requestTimestamps, clock - 1000) IN
         /\ (InvokesWaitForRateLimit(p) /\ purged # <<>>
               /\ Len(purged) >= rateLimitPerSecond)
              => /\ pc'[p] = "rl_sleep"
                 /\ delay'[p] = purged[1] - (clock - 1000) + 10
                 /\ wakeAt'[p] = purged[1] + 1010
                 /\ requestTimestamps' = purged
         /\ (InvokesWaitForRateLimit(p) /\ Len(purged) < rateLimitPerSecond)
              => pc'[p] = "admitted"
         /\ (pc[p] = "rl_sleep" /\ pc'[p] = "admitted")
              => /\ clock >= wakeAt[p]
                 /\ requestTimestamps' = Append(purged, clock)]_vars

\* a caller that found the window full 999 ms after its oldest timestamp
\* sleeps 11 ms, until 1010
C27_Witness ==
  \E p \in Procs :
    /\ pc[p] = "rl_sleep"
    /\ requestTimestamps # <<>>
    /\ requestTimestamps[1] = 0
    /\ delay[p] = 11
    /\ wakeAt[p] = 1010

\* how many times the value v occurs in the sequence s
Count(s, v) == Cardinality({i \in DOMAIN s : s[i] = v})

\* the window as the purge of caller p's step left it, before any push
AfterPurge(p) ==
  IF pc'[p] = "admitted"
    THEN SubSeq(requestTimestamps', 1, Len(requestTimestamps') - 1)
    ELSE requestTimestamps'

\* C28: after the purge of a waitForRateLimit() step taken at clock value
\* now, every timestamp left is greater than now - 1000, none of those that
\* were greater than now - 1000 is missing, and all the others are gone.
C28_Purge ==
  [][\A p \in Procs :
       (InvokesWaitForRateLimit(p) \/ Admitted(p))
         => /\ \A i \in DOMAIN AfterPurge(p) : AfterPurge(p)[i] > clock - 1000
            /\ \A v \in Range(requestTimestamps) \cup Range(AfterPurge(p)) :
                 Count(AfterPurge(p), v) =
                   IF v > clock - 1000 THEN Count(requestTimestamps, v) ELSE 0
            /\ Admitted(p)
                 => requestTimestamps'[Len(requestTimestamps')] = clock]_vars

\* at 1000 a purge removed the timestamp 0 and kept 999
C28_Witness ==
  /\ clock = 1000
  /\ requestTimestamps = <<999, 1000>>
  /\ \E p \in Procs : pc[p] = "admitted"

\* C29: a caller that is suspended in a rate-governor wait or in a
\* retry-after wait holds nothing the others need: whenever some caller
\* sleeps, every other caller can take the step it is at (start a request,
\* go on after its admission, receive its answer, read the body, resolve).
C29_WaitsYield ==
  \A q \in Procs :
    (\E p \in Procs \ {q} : Sleeping(p)) =>
      /\ MayStart(q, "request") => ENABLED StartRequest(q)
      /\ pc[q] = "admitted" => ENABLED Authenticate(q)
      /\ pc[q] = "tok_fetch" => ENABLED TokenResponse(q)
      /\ pc[q] = "tok_json" => ENABLED TokenStore(q)
      /\ (pc[q] = "send" /\ env.statuses \ {429} # {}) => ENABLED SendResponse(q)
      /\ pc[q] = "json" => ENABLED JsonBody(q)
      /\ (pc[q] = "done" /\ outer[q] = "none") => ENABLED Return(q)

\* while a caller is suspended in the rate governor (since 0, until 1010)
\* the retry of another call was admitted at 1000, sent and resolved
C29_Witness ==
  \E p, q \in Procs :
    /\ pc[p] = "rl_sleep"
    /\ clock < wakeAt[p]
    /\ pc[q] = "done"
    /\ op[q] = "request"
    /\ result[q].kind = "value"
    /\ requestTimestamps # <<>>
    /\ requestTimestamps[Len(requestTimestamps)] > wakeAt[p] - delay[p]

\* C30: requestTimestamps is sorted in non-decreasing order in every
\* reachable state, none of its timestamps is ahead of the clock, and its
\* first element is a minimum of the window.
C30_WindowOrdered ==
  /\ \A i, j \in DOMAIN requestTimestamps :
       i < j => requestTimestamps[i] <= requestTimestamps[j]
  /\ \A i \in DOMAIN requestTimestamps :
       /\ requestTimestamps[1] <= requestTimestamps[i]
       /\ requestTimestamps[i] <= clock

\* overlapping callers have left two different timestamps in the window,
\* and a caller sleeps on the first of them
C30_Witness ==
  /\ env.active = 2
  /\ Len(requestTimestamps) = 2
  /\ requestTimestamps[1] < requestTimestamps[2]
  /\ \E p \in Procs : pc[p] = "rl_sleep"

\* C25: when the list call of a find-by-name operation has succeeded, the
\* operation returns, without throwing, the first listed entry whose name is
\* exactly the query, and undefined when no entry has that name, the empty
\* list included
C25_FindByName ==
  [][\A p \in Procs :
       (/\ outer[p] = "findApplicationByName"
        /\ op[p] = "request"
        /\ pc[p] = "done"
        /\ result[p].kind = "value"
        /\ op'[p] = "findApplicationByName")
       => LET items == result[p].value.items
              hits == {i \in DOMAIN items : items[i].name = env.name}
          IN /\ result'[p].kind = "found"
             /\ pc'[p] = "done"
             /\ hits = {} => result'[p].value = NoValue
             /\ hits # {} =>
                  \E i \in hits : /\ \A j \in hits : i <= j
                                  /\ result'[p].value = JsonObject(items[i])]_vars

\* a lookup of "a" in the list of "b" and "a" has returned the second entry
C25_Witness ==
  \E p \in Procs :
    /\ op[p] = "findApplicationByName"
    /\ env.name = "a"
    /\ result[p].kind = "found"
    /\ result[p].value = JsonObject(Entry("app2", "a"))

\* C31: with a quota of at least 1, a caller that invokes waitForRateLimit()
\* and finds the window full (at least rateLimitPerSecond timestamps younger
\* than 1000 ms) is always suspended, and the wait it is suspended for is
\* between 11 and 1010 ms: 1010 minus the age of the oldest timestamp kept.
C31_WaitRange ==
  [][\A p \in Procs :
       LET kept == {i \in DOMAIN requestTimestamps :
                      requestTimestamps[i] > clock - 1000}
       IN rateLimitPerSecond >= 1 =>
            /\ (InvokesWaitForRateLimit(p) /\ Cardinality(kept) >= rateLimitPerSecond)
                 => /\ pc'[p] = "rl_sleep"
                    /\ \E i \in kept :
                         /\ \A j \in kept : i <= j
                         /\ delay'[p] = 1010 - (clock - requestTimestamps[i])
            /\ (pc[p] # "rl_sleep" /\ pc'[p] = "rl_sleep")
                 => (delay'[p] >= 11 /\ delay'[p] <= 1010)]_vars

\* both ends of the range: with a quota of 1, one caller found the window
\* full in the millisecond of the oldest timestamp and sleeps 1010 ms, another
\* found it full 999 ms later and sleeps 11 ms
C31_Witness ==
  \E p, q \in Procs :
    /\ rateLimitPerSecond = 1
    /\ pc[p] = "rl_sleep" /\ delay[p] = 1010
    /\ pc[q] = "rl_sleep" /\ delay[q] = 11

\* the cached token is the one of a grant that declared expires_in <= 300
\* (the grants of a run carry distinct tokens)
ShortLived(tok) ==
  \E g \in env.grants : g.access_token = tok /\ g.expires_in <= 300

\* C32: a token whose grant declared expires_in <= 300 seconds is never
\* within its validity (now < tokenExpiry - 300000 is false from the moment
\* it is cached), so every getAccessToken() that finds it cached, the one of
\* each attempt of a request() included, posts to the token endpoint.
C32_ShortLivedNeverReused ==
  [][\A p \in Procs :
       (accessToken # NoToken /\ ShortLived(accessToken))
         => /\ clock >= tokenExpiry - 300000
            /\ EntersGetAccessToken(p)
                 => /\ pc'[p] = "tok_fetch"
                    /\ fetches'[p] = fetches[p] + 1
                    /\ token'[p] = token[p]]_vars

\* in the millisecond in which a token of 300 s was cached, the next call
\* finds it and fetches a new one
C32_Witness ==
  /\ env.active = 1
  /\ accessToken # NoToken
  /\ ShortLived(accessToken)
  /\ tokenExpiry = clock + 300000
  /\ \E p \in Procs : pc[p] = "tok_fetch" /\ fetches[p] = 1 /\ calls >= 2

\* C33: a client configured with rateLimitPerSecond = 0 keeps the quota 0;
\* a caller that invokes waitForRateLimit() when no timestamp is younger than
\* 1000 ms records at once, without a suspension; one that finds a younger
\* timestamp is suspended once, for at most 1010 ms, and leaves the
\* suspension only by recording, which it does when its timer has fired.
C33_QuotaZero ==
  /\ [][\A p \in Procs :
          LET kept == {i \in DOMAIN requestTimestamps :
                         requestTimestamps[i] > clock - 1000}
          IN env.cfg = 0 =>
               /\ rateLimitPerSecond = 0
               /\ (InvokesWaitForRateLimit(p) /\ kept = {})
                    => /\ pc'[p] = "admitted"
                       /\ recorded'[p] = recorded[p] + 1
                       /\ requestTimestamps' = <<clock>>
               /\ (InvokesWaitForRateLimit(p) /\ pc'[p] = "rl_sleep")
                    => (delay'[p] \in 11..1010 /\ wakeAt'[p] = clock + delay'[p])
               /\ pc[p] = "rl_sleep"
                    => /\ pc'[p] \in {"rl_sleep", "admitted"}
                       /\ wakeAt'[p] = wakeAt[p]
                       /\ pc'[p] = "admitted"
                            => (recorded'[p] = recorded[p] + 1 /\ clock >= wakeAt[p])]_vars
  /\ \A p \in Procs :
       (env.cfg = 0 /\ pc[p] = "rl_sleep") ~> (pc[p] = "admitted")

\* with a quota of 0 the first call recorded at once, and a later call, made
\* within the second, has slept and recorded
C33_Witness ==
  \E p \in Procs :
    /\ rateLimitPerSecond = 0
    /\ calls >= 2
    /\ pc[p] = "admitted"
    /\ delay[p] > 0
    /\ clock >= wakeAt[p]
    /\ Len(requestTimestamps) = 1

\* caller p takes a step of getAccessToken(): it enters it, or one of its
\* awaits (the fetch, the body of the answer) settles
InGetAccessToken(p) ==
  \/ EntersGetAccessToken(p)
  \/ pc[p] \in {"tok_fetch", "tok_json", "tok_text"} /\ pc'[p] # pc[p]

\* C34: no step of getAccessToken() changes requestTimestamps; the window
\* changes only in a step of waitForRateLimit() on behalf of a request(), and
\* grows only when a request() attempt records; a testConnection() whose
\* token acquisition fails reports the failure having sent nothing and
\* recorded nothing, and its report leaves the window as it was.
C34_TokenNotGoverned ==
  [][/\ \A p \in Procs :
          InGetAccessToken(p)
            => (requestTimestamps' = requestTimestamps /\ recorded' = recorded)
     /\ requestTimestamps' # requestTimestamps
          => \E p \in Procs : /\ op'[p] = "request"
                              /\ pc'[p] # pc[p]
                              /\ pc'[p] \in {"rl_sleep", "admitted"}
     /\ Len(requestTimestamps') > Len(requestTimestamps)
          => \E p \in Procs : /\ op'[p] = "request"
                              /\ pc'[p] = "admitted"
                              /\ recorded'[p] = recorded[p] + 1
     /\ \A p \in Procs :
          (outer[p] = "testConnection" /\ op[p] = "getAccessToken")
            => /\ sends[p] = 0
               /\ recorded[p] = 0
               /\ op'[p] = "testConnection"
                    => /\ result[p].kind \in {"auth_error", "network_error"}
                       /\ ~result'[p].success
                       /\ sends'[p] = 0
                       /\ recorded'[p] = 0
                       /\ requestTimestamps' = requestTimestamps]_vars

\* after a call that recorded a timestamp, a testConnection() was refused the
\* token (401) and has reported it; nothing was sent or recorded for it
C34_Witness ==
  \E p \in Procs :
    /\ outer[p] = "testConnection"
    /\ op[p] = "testConnection"
    /\ pc[p] = "done"
    /\ result[p].error.prefix = "Failed to get access token:"
    /\ sends[p] = 0
    /\ recorded[p] = 0
    /\ calls >= 2
    /\ requestTimestamps # <<>>

\* caller p issues fetch(url, ...) in this step, with the token token'[p]
SendsToken(p) == pc[p] # "send" /\ pc'[p] = "send"

\* every send of request() carries what the getAccessToken() of the same
\* attempt returned: the cached token when that call found it valid, else the
\* token of the grant it fetched; an attempt that finds the cache stale
\* fetches before it sends, and a retry wait is followed by a new admission
\* and a new getAccessToken(), never directly by a send
SendsOwnToken(p) ==
  /\ SendsToken(p)
       => /\ pc[p] \in {"admitted", "tok_json"}
          /\ pc[p] = "admitted"
               => /\ CacheValid(accessToken, tokenExpiry, clock)
                  /\ token'[p] = accessToken
                  /\ fetches'[p] = fetches[p]
          /\ pc[p] = "tok_json"
               => /\ token'[p] = resp[p].access_token
                  /\ token'[p] = accessToken'
  /\ (pc[p] = "admitted" /\ pc'[p] # "admitted"
        /\ ~CacheValid(accessToken, tokenExpiry, clock))
       => /\ pc'[p] = "tok_fetch"
          /\ fetches'[p] = fetches[p] + 1
          /\ sends'[p] = sends[p]
  /\ pc[p] = "retry_sleep"
       => /\ pc'[p] \in {"retry_sleep", "rl_sleep", "admitted"}
          /\ sends'[p] = sends[p]

\* C35 (as claimed): each attempt of a request() sends the token its own
\* getAccessToken() returned, and a retry that had to acquire a token never
\* sends the token the attempt before it sent.
C35_NeverPreviousToken ==
  [][\A p \in Procs :
       op[p] = "request" =>
         /\ SendsOwnToken(p)
         /\ (SendsToken(p) /\ pc[p] = "tok_json" /\ sends[p] >= 1)
              => token'[p] # token[p]]_vars

\* C35 (amended): each attempt of a request() sends the token its own
\* getAccessToken() returned; a retry that finds the cache stale posts to the
\* token endpoint before it sends, and sends the token of that answer,
\* whether or not the endpoint issued the string of the attempt before.
C35_ReAuthenticates ==
  [][\A p \in Procs : op[p] = "request" => SendsOwnToken(p)]_vars

\* the first attempt of a request sent the cached token without a fetch; the
\* token went stale during the retry wait, and the retry has just stored a
\* new grant and sent its token
C35_Witness ==
  \E p \in Procs :
    /\ op[p] = "request"
    /\ pc[p] = "send"
    /\ sends[p] = 2
    /\ fetches[p] = 1
    /\ token[p] = accessToken
    /\ tokenExpiry >= clock + 301000
    /\ clock >= 1000

====
